---- MODULE Spec2Model ----
(***************************************************************************)
(* Tyre analysis pipeline: the analysis route (app/API/askllm/route.ts),   *)
(* the page state and its upload handlers (app/page.tsx,                   *)
(* components/ui/animatedheader.tsx) and the pipeline controller           *)
(* handleAnalyze (lib/video-utils).                                        *)
(*                                                                         *)
(* The repository holds three snapshots of the page/route pair:            *)
(*   "page"   app/page.tsx with the POST that reads the 'image' field,     *)
(*   "header" the Home with inline handleAnalyze (animatedheader.tsx       *)
(*            562-659) with the POST that reads 'file' and 'mediaType',    *)
(*   "utils"  the Home that imports handleAnalyze and extractVideoFrames   *)
(*            from lib/video-utils, with the same POST.                    *)
(***************************************************************************)
EXTENDS Integers, Sequences, FiniteSets, TLC

VARIABLES
  snapshot,      \* which snapshot of the page/route pair runs
  postPc,        \* position of the POST handler
  formData,      \* the form data of the request the POST is handling
  postResp,      \* the Response the POST returned
  timeoutId,     \* state of the setTimeout deadline timer
  aborted,       \* controller.signal.aborted
  completion,    \* state of the openai.chat.completions.create call
  contentString, \* the reply text the create call resolved with
  backendCalls,  \* number of create calls issued by this POST
  media,         \* useState media / images: the media item of each view
  analysis,      \* useState analysis: the AnalysisState
  error,         \* useState error
  isAnalyzing,   \* useState isAnalyzing
  uploads,       \* upload handlers waiting for the reader / frame extraction
  captured,      \* the media value the last handleAnalyze closed over
  curIdx,        \* position in Object.entries(media) of the awaited view
  analysisResults, \* the local accumulator of handleAnalyze in page.tsx
  outstanding,   \* fetch requests sent and not yet answered
  servedView,    \* the view whose request the route is handling
  inv,           \* history: number of handleAnalyze invocations started
  sentViews,     \* history: views a request was sent for, this invocation
  okViews,       \* history: views whose response was ok, this invocation
  committedViews, \* history: views written into analysis by this invocation
  failedView,    \* history: the view at which this invocation failed
  cleared,       \* history: views an upload cleared since the invocation began
  resultOf,      \* history: invocation and file each analysis entry came from
  samplerPc,     \* position of extractVideoFrames: which video event comes next
  duration,      \* video.duration
  ctx,           \* canvas.getContext('2d')
  timestamps,    \* the timestamps extractVideoFrames seeks to
  currentFrame,  \* index of the timestamp being processed
  frames,        \* the frames captured so far
  currentTime,   \* video.currentTime
  videoUrl,      \* the object URL of the video
  promise,       \* the promise extractVideoFrames returned
  captureErrors, \* history: seeks whose drawImage / toDataURL threw
  frameData,     \* the argument of checkFrameQuality: the length of the data URI
  qualityResult, \* what checkFrameQuality returned
  lastFile       \* history: the file selected last for each view

routeVars ==
  <<postPc, formData, postResp, timeoutId, aborted, completion, contentString, backendCalls>>
pageVars == <<media, analysis, error, isAnalyzing, uploads>>
invocationVars == <<captured, curIdx, analysisResults, outstanding, servedView>>
historyVars == <<inv, sentViews, okViews, committedViews, failedView, cleared, resultOf>>
clientVars == <<pageVars, invocationVars, historyVars>>
samplerVars ==
  <<samplerPc, duration, ctx, timestamps, currentFrame, frames, currentTime, videoUrl,
    promise, captureErrors>>
qualityVars == <<frameData, qualityResult>>
libVars == <<samplerVars, qualityVars, lastFile>>
vars == <<snapshot, routeVars, clientVars, libVars>>

Snapshots == {"page", "header", "utils"}
ViewTypes == {"treadView", "sidewallView"}

----------------------------------------------------------------------------
(* JSON values.  A value is a tagged string: "undefined" (property         *)
(* missing), "null", "" (empty string), or a non-empty string.             *)

NotAvailable == "not available"
Undefined == "undefined"
JNull == "null"

\* JavaScript !x for the values above
Falsy(x) == x \in {Undefined, JNull, "", "false"}

MeasurementVals == {Undefined, JNull, "", NotAvailable, "215"}
FullSizeVals == {Undefined, NotAvailable, "215/55R17"}
ClearVals == {Undefined, "true", "false"}

TyreSizeObjects ==
  [kind : {"object"}, width : MeasurementVals, aspectRatio : MeasurementVals,
   wheelDiameter : MeasurementVals, fullSize : FullSizeVals, isImageClear : ClearVals]

NoTyreSize ==
  [kind |-> Undefined, width |-> Undefined, aspectRatio |-> Undefined,
   wheelDiameter |-> Undefined, fullSize |-> Undefined, isImageClear |-> Undefined]

TyreAnalysis ==
  [tyreSize : TyreSizeObjects \cup {NoTyreSize},
   safety : {Undefined, "object"}, explanations : {Undefined, "object"}]

NoAnalysis == [tyreSize |-> NoTyreSize, safety |-> Undefined, explanations |-> Undefined]

\* A reply with every field of both views
GoodAnalysis ==
  [tyreSize |-> [kind |-> "object", width |-> "215", aspectRatio |-> "215",
                 wheelDiameter |-> "215", fullSize |-> "215/55R17",
                 isImageClear |-> "true"],
   safety |-> "object", explanations |-> "object"]

\* Text content of the backend's reply (completion.choices[0].message.content):
\* nothing, text that holds no JSON, a JSON object (kind "json", value the
\* object), or one JSON object with prose before and after it ("wrapped")
NoContent == [kind |-> "none", value |-> NoAnalysis]
NotJson == [kind |-> "notjson", value |-> NoAnalysis]
WrappedJson == [kind |-> "wrapped", value |-> GoodAnalysis]
Contents == [kind : {"json"}, value : TyreAnalysis] \cup {NoContent, NotJson, WrappedJson}

\* JSON.parse(contentString): the whole text must be one JSON value
JSONParses(content) == content.kind = "json"

----------------------------------------------------------------------------
(* Files and form data                                                     *)

MiB == 1024 * 1024
MAX_IMAGE_SIZE == 4 * 1024 * 1024
VIDEO_SIZE_LIMIT == 50 * 1024 * 1024

FileSizes == {MAX_IMAGE_SIZE, MAX_IMAGE_SIZE + 1, 5 * MiB, VIDEO_SIZE_LIMIT, VIDEO_SIZE_LIMIT + 1}
File == [kind : {"image", "video"}, size : FileSizes]
NoFile == [kind |-> "none", size |-> 0]

\* file.type.startsWith('video/')
IsVideoFile(f) == f.kind = "video"

EmptyForm ==
  [file |-> NoFile, image |-> NoFile, frames |-> << >>, viewType |-> "treadView",
   mediaType |-> Undefined, isVideo |-> Undefined]

----------------------------------------------------------------------------
(* The analysis route                                                      *)

Response(status, message, body) ==
  [status |-> status, error |-> message, analysis |-> body]
NoResponse == Response(0, "", NoAnalysis)

\* A limit that ignores the declared media kind
size_limit_AlwaysVideo(fd) == VIDEO_SIZE_LIMIT

\* route.ts 447-464: the checks of the POST that reads 'file' and 'mediaType'
size_limit(fd) == IF fd.mediaType = "video" THEN VIDEO_SIZE_LIMIT ELSE MAX_IMAGE_SIZE

InputCheckFile(fd) ==
  IF fd.file = NoFile
    THEN Response(400, "No file provided", NoAnalysis)
  ELSE IF fd.file.size > size_limit(fd)
    THEN Response(400, "File size exceeds limit", NoAnalysis)
  ELSE IF fd.mediaType = "video" /\ ~IsVideoFile(fd.file)
    THEN Response(400, "Invalid video format", NoAnalysis)
  ELSE NoResponse

\* route.ts 130-138: the checks of the POST that reads 'image'
InputCheckImage(fd) ==
  IF fd.image = NoFile
    THEN Response(400, "No image provided", NoAnalysis)
  ELSE IF fd.image.size > MAX_IMAGE_SIZE
    THEN Response(400, "Image size exceeds 4MB limit", NoAnalysis)
  ELSE NoResponse

InputCheck(snap, fd) == IF snap = "page" THEN InputCheckImage(fd) ELSE InputCheckFile(fd)

\* The condition without its wheelDiameter test
NeedsForce_NoDiameter(t) ==
  \/ t.width = NotAvailable \/ Falsy(t.width)
  \/ t.aspectRatio = NotAvailable \/ Falsy(t.aspectRatio)

\* route.ts 540-547: the condition of the consistency enforcer
NeedsForce(t) ==
  \/ t.width = NotAvailable \/ Falsy(t.width)
  \/ t.aspectRatio = NotAvailable \/ Falsy(t.aspectRatio)
  \/ t.wheelDiameter = NotAvailable \/ Falsy(t.wheelDiameter)

\* The rewrite without its fullSize assignment
ForceNotAvailable_KeepFullSize(t) ==
  [t EXCEPT !.isImageClear = "false", !.width = NotAvailable,
            !.aspectRatio = NotAvailable, !.wheelDiameter = NotAvailable]

\* A rewrite that blanks only the field next to an unavailable one
ForceNotAvailable_Neighbour(t) ==
  [t EXCEPT !.isImageClear = "false", !.fullSize = NotAvailable,
            !.width = IF t.aspectRatio = NotAvailable \/ Falsy(t.aspectRatio)
                        THEN NotAvailable ELSE @,
            !.aspectRatio = IF t.wheelDiameter = NotAvailable \/ Falsy(t.wheelDiameter)
                              THEN NotAvailable ELSE @,
            !.wheelDiameter = IF t.width = NotAvailable \/ Falsy(t.width)
                                THEN NotAvailable ELSE @]

\* route.ts 548-552: the rewrite
ForceNotAvailable(t) ==
  [t EXCEPT !.isImageClear = "false", !.width = NotAvailable,
            !.aspectRatio = NotAvailable, !.wheelDiameter = NotAvailable,
            !.fullSize = NotAvailable]

\* An enforcer that rewrites every reply
ForceConsistency_Always(t) == ForceNotAvailable(t)

\* route.ts 539-553
ForceConsistency(t) == IF NeedsForce(t) THEN ForceNotAvailable(t) ELSE t

\* route.ts 530-559: from the reply text to the Response
ParseAndEnforce(content) ==
  IF content.kind = "none"
    THEN Response(500, "No analysis results received", NoAnalysis)
  ELSE IF ~JSONParses(content)
    THEN Response(500, "Failed to parse analysis results", NoAnalysis)
  ELSE IF content.value.tyreSize.kind # "object"
    \* analysis.tyreSize.width throws a TypeError inside the inner try
    THEN Response(500, "Failed to parse analysis results", NoAnalysis)
  ELSE Response(200, "", [content.value EXCEPT !.tyreSize = ForceConsistency(@)])

\* route.ts 197-209: the older POST returns the parsed reply as it is
ParseOnly(content) ==
  IF content.kind = "none"
    THEN Response(500, "No analysis results received", NoAnalysis)
  ELSE IF ~JSONParses(content)
    THEN Response(500, "Failed to parse analysis results", NoAnalysis)
  ELSE Response(200, "", content.value)

HandleContent(snap, content) ==
  IF snap = "page" THEN ParseOnly(content) ELSE ParseAndEnforce(content)

\* route.ts 561-569: the catch around the backend call
CatchError(name, message) ==
  IF name = "AbortError"
    THEN Response(408, "Request timed out - please try again", NoAnalysis)
    ELSE Response(500, message, NoAnalysis)

\* The create call is cancelled through controller.signal (route.ts 505-507).
\* The rejection is raised by the OpenAI client, not by this repository: it
\* may carry the name 'AbortError' the catch at route.ts 563 tests for, or the
\* name of the client's own error class (APIUserAbortError has name 'Error').
AbortRejectionNames == {"AbortError", "Error"}

\* A handler that issues the create call before its checks
CreateCalls_BeforeChecks(snap, fd) == 1

\* route.ts 447-509 (130-176): every check returns before the single
\* openai.chat.completions.create of the handler
CreateCalls(snap, fd) == IF InputCheck(snap, fd) = NoResponse THEN 1 ELSE 0

RouteInit ==
  /\ postPc = "idle"
  /\ formData = EmptyForm
  /\ postResp = NoResponse
  /\ timeoutId = "unset"
  /\ aborted = FALSE
  /\ completion = "none"
  /\ contentString = NoContent
  /\ backendCalls = 0

\* route.ts 442-509 (126-176): the request is read and checked; a request
\* that passes arms the deadline timer and issues the backend call
POSTReceive(fd) ==
  /\ postPc = "idle"
  /\ formData' = fd
  /\ IF InputCheck(snapshot, fd) # NoResponse
       THEN /\ postPc' = "responded"
            /\ postResp' = InputCheck(snapshot, fd)
            /\ UNCHANGED <<timeoutId, aborted, completion, contentString>>
       ELSE /\ postPc' = "awaiting"
            /\ timeoutId' = "pending"
            /\ completion' = "inflight"
            /\ UNCHANGED <<postResp, aborted, contentString>>
  /\ backendCalls' = backendCalls + CreateCalls(snapshot, fd)

\* route.ts 509-559: the backend answered; clearTimeout, parse, enforce, respond
CompletionResolves(content) ==
  /\ postPc = "awaiting"
  /\ completion = "inflight"
  /\ completion' = "resolved"
  /\ contentString' = content
  /\ timeoutId' = "cleared"
  /\ postResp' = HandleContent(snapshot, content)
  /\ postPc' = "responded"
  /\ UNCHANGED <<formData, aborted, backendCalls>>

\* route.ts 561-569: the backend call failed on its own (transport, non-2xx)
CompletionRejects ==
  /\ postPc = "awaiting"
  /\ completion = "inflight"
  /\ completion' = "rejected"
  /\ postResp' = CatchError("Error", "upstream error")
  /\ postPc' = "responded"
  /\ UNCHANGED <<formData, timeoutId, aborted, contentString, backendCalls>>

\* route.ts 475: the timer callback, controller.abort()
TimeoutFires ==
  /\ timeoutId = "pending"
  /\ timeoutId' = "fired"
  /\ aborted' = TRUE
  /\ completion' = IF completion = "inflight" THEN "cancelled" ELSE completion
  /\ UNCHANGED <<postPc, formData, postResp, contentString, backendCalls>>

\* route.ts 561-565: the cancelled call rejects and the catch answers
AbortRejects ==
  /\ postPc = "awaiting"
  /\ completion = "cancelled"
  /\ \E name \in AbortRejectionNames :
       postResp' = CatchError(name, "Request was aborted.")
  /\ postPc' = "responded"
  /\ UNCHANGED <<formData, timeoutId, aborted, completion, contentString, backendCalls>>

\* The response has been delivered; the handler instance is gone
POSTReturn ==
  /\ postPc = "responded"
  /\ postPc' = "idle"
  /\ formData' = EmptyForm
  /\ postResp' = NoResponse
  /\ timeoutId' = "unset"
  /\ aborted' = FALSE
  /\ completion' = "none"
  /\ contentString' = NoContent
  /\ backendCalls' = 0

----------------------------------------------------------------------------
(* The page: media, AnalysisState and the upload handlers                  *)

MaxPending == 2
MaxInvocations == 2

\* Object.entries(media): treadView first, sidewallView second
ViewOrder == <<"treadView", "sidewallView">>
IndexOf(v) == CHOOSE i \in 1..Len(ViewOrder) : ViewOrder[i] = v

\* The files the user selects
PageFiles == {[kind |-> "image", size |-> MAX_IMAGE_SIZE],
              [kind |-> "video", size |-> VIDEO_SIZE_LIMIT]}

\* A frame is the data URL canvas.toDataURL('image/jpeg', 0.5) returned,
\* represented by its length; "data:image/jpeg;base64," has 23 characters
DataUriPrefixLength == 23
HalfLimitFrame == DataUriPrefixLength + 6 * MiB
SmallFrame == DataUriPrefixLength + 1024

\* What extractVideoFrames may resolve with (frames of a loaded video)
ExtractOutcomes ==
  {<< >>, <<SmallFrame>>, <<HalfLimitFrame, HalfLimitFrame>>,
   <<HalfLimitFrame, HalfLimitFrame, SmallFrame>>}

MediaItem(f, t, fr) == [file |-> f, type |-> t, frames |-> fr]
NoMedia == MediaItem(NoFile, "image", << >>)

NullEntry == [isNull |-> TRUE, value |-> NoAnalysis]
Entry(body) == [isNull |-> FALSE, value |-> body]
EmptyAnalysis == [v \in ViewTypes |-> NullEntry]

NoSource == [inv |-> 0, file |-> NoFile]
NoView == "none"

PageInit ==
  /\ media = [v \in ViewTypes |-> NoMedia]
  /\ analysis = EmptyAnalysis
  /\ error = JNull
  /\ isAnalyzing = FALSE
  /\ uploads = {}
  /\ captured = [v \in ViewTypes |-> NoMedia]
  /\ curIdx = 0
  /\ analysisResults = EmptyAnalysis
  /\ outstanding = {}
  /\ servedView = NoView
  /\ inv = 0
  /\ sentViews = {}
  /\ okViews = {}
  /\ committedViews = {}
  /\ failedView = NoView
  /\ cleared = {}
  /\ resultOf = [v \in ViewTypes |-> NoSource]

\* animatedheader.tsx 54-96: handleMediaUpload of the Home that uses
\* lib/video-utils; an image is stored at once, a video after the frames
\* have been extracted
UploadUtils(v, f) ==
  /\ snapshot = "utils"
  /\ IF IsVideoFile(f)
       THEN /\ Cardinality(uploads \cup {[view |-> v, file |-> f]}) <= MaxPending
            /\ uploads' = uploads \cup {[view |-> v, file |-> f]}
            /\ UNCHANGED media
       ELSE /\ media' = [media EXCEPT ![v] = MediaItem(f, "image", << >>)]
            /\ UNCHANGED uploads
  /\ UNCHANGED <<analysis, error, isAnalyzing, invocationVars, historyVars>>

\* animatedheader.tsx 68-79: the frames arrived
FramesExtracted(u, fs) ==
  /\ snapshot = "utils"
  /\ u \in uploads
  /\ uploads' = uploads \ {u}
  /\ media' = [media EXCEPT ![u.view] = MediaItem(u.file, "video", fs)]
  /\ UNCHANGED <<analysis, error, isAnalyzing, invocationVars, historyVars>>

\* animatedheader.tsx 90-92: extractVideoFrames rejected
ExtractionFails(u) ==
  /\ snapshot = "utils"
  /\ u \in uploads
  /\ uploads' = uploads \ {u}
  /\ error' = "Error processing media file"
  /\ UNCHANGED <<media, analysis, isAnalyzing, invocationVars, historyVars>>

\* page.tsx 53-74 and animatedheader.tsx 578-607: the reader is started and
\* the view's analysis entry and the error are cleared
UploadReader(v, f) ==
  /\ snapshot \in {"page", "header"}
  /\ Cardinality(uploads \cup {[view |-> v, file |-> f]}) <= MaxPending
  /\ uploads' = uploads \cup {[view |-> v, file |-> f]}
  /\ analysis' = [analysis EXCEPT ![v] = NullEntry]
  /\ error' = JNull
  /\ cleared' = cleared \cup {v}
  /\ resultOf' = [resultOf EXCEPT ![v] = NoSource]
  /\ UNCHANGED <<media, isAnalyzing, invocationVars,
                 inv, sentViews, okViews, committedViews, failedView>>

\* page.tsx 57-65 and animatedheader.tsx 584-593: reader.onloadend
ReaderLoaded(u) ==
  /\ snapshot \in {"page", "header"}
  /\ u \in uploads
  /\ uploads' = uploads \ {u}
  /\ media' = [media EXCEPT ![u.view] =
                 MediaItem(u.file,
                           IF snapshot = "header" /\ IsVideoFile(u.file)
                             THEN "video" ELSE "image",
                           << >>)]
  /\ UNCHANGED <<analysis, error, isAnalyzing, invocationVars, historyVars>>

----------------------------------------------------------------------------
(* The pipeline controller handleAnalyze                                   *)

Min(S) == CHOOSE x \in S : \A y \in S : x <= y
Max(S) == CHOOSE x \in S : \A y \in S : x >= y

\* A loop that does not skip the views without a file
NextView_NoSkip(m, i) == IF i > Len(ViewOrder) THEN 0 ELSE i

\* part_000 129: the first view at or after position i that has a file
RECURSIVE NextView(_, _)
NextView(m, i) ==
  IF i > Len(ViewOrder) THEN 0
  ELSE IF m[ViewOrder[i]].file # NoFile THEN i
  ELSE NextView(m, i + 1)

\* Requests started without waiting for the previous response
SendFrom_All(m, i) == {j \in i..Len(ViewOrder) : m[ViewOrder[j]].file # NoFile}

\* part_000 128-163: the positions whose request is sent before the loop
\* suspends at `await fetch`
SendFrom(m, i) == IF NextView(m, i) = 0 THEN {} ELSE {NextView(m, i)}

\* A failure that is caught inside the loop, which goes on with the next view
AfterFailure_Continue(m, i) == NextView(m, i + 1)

\* part_000 176-182: a throw leaves the loop for the catch; no position follows
AfterFailure(m, i) == 0

\* part_000 138: frame.replace(/^data:image\/\w+;base64,/, '').length
Base64Length(frame) == frame - DataUriPrefixLength

RECURSIVE SumBase64(_)
SumBase64(fs) ==
  IF fs = << >> THEN 0 ELSE Base64Length(Head(fs)) + SumBase64(Tail(fs))

\* A check against the total string length of ten times the limit
FramesExceedLimit_Loose(fs) == 3 * SumBase64(fs) > 4 * 90 * MiB

\* part_000 137-144: totalSize = sum(length * 0.75), sizeMB = totalSize / 2^20,
\* sizeMB > 9
FramesExceedLimit(fs) == 3 * SumBase64(fs) > 4 * 9 * MiB

\* part_000 133-135
HasFrames(item) == item.type = "video" /\ Len(item.frames) > 0

\* part_000 144-146: only the handleAnalyze of lib/video-utils checks a size
Throws(snap, item) == snap = "utils" /\ HasFrames(item) /\ FramesExceedLimit(item.frames)

\* part_000 131-158, animatedheader.tsx 620-623, page.tsx 91-94
BuildForm(snap, v, item) ==
  IF snap = "page"
    THEN [EmptyForm EXCEPT !.image = item.file, !.viewType = v]
  ELSE IF snap = "header"
    THEN [EmptyForm EXCEPT !.file = item.file, !.viewType = v, !.mediaType = item.type]
  ELSE IF HasFrames(item)
    THEN [EmptyForm EXCEPT !.frames = item.frames, !.viewType = v, !.isVideo = "true"]
  ELSE [EmptyForm EXCEPT !.file = item.file, !.viewType = v]

FetchRequest(snap, m, j) ==
  [view |-> ViewOrder[j], fd |-> BuildForm(snap, ViewOrder[j], m[ViewOrder[j]])]

\* The values the handler has produced when it suspends or ends
Locals(an, src, com, res, err, out, sent) ==
  [an |-> an, src |-> src, com |-> com, res |-> res, err |-> err, out |-> out,
   sent |-> sent]

\* finally (part_000 179-182): the invocation ends
Finish(st, fv) ==
  /\ analysis' = st.an
  /\ resultOf' = st.src
  /\ committedViews' = st.com
  /\ error' = st.err
  /\ failedView' = fv
  /\ isAnalyzing' = FALSE
  /\ curIdx' = 0
  /\ analysisResults' = EmptyAnalysis
  /\ outstanding' = st.out
  /\ sentViews' = st.sent

\* await fetch (part_000 160): the requests of the positions S are sent
Suspend(m, S, st, fv) ==
  /\ analysis' = st.an
  /\ resultOf' = st.src
  /\ committedViews' = st.com
  /\ error' = st.err
  /\ failedView' = fv
  /\ isAnalyzing' = TRUE
  /\ curIdx' = Max(S)
  /\ analysisResults' = st.res
  /\ outstanding' = st.out \cup {FetchRequest(snapshot, m, j) : j \in S}
  /\ sentViews' = st.sent \cup {ViewOrder[j] : j \in S}

\* catch (part_000 176-178, page.tsx 111-113, animatedheader.tsx 653-655)
Failure(m, i, st, message) ==
  IF AfterFailure(m, i) = 0
    THEN Finish([st EXCEPT !.err = message], ViewOrder[i])
    ELSE Suspend(m, {AfterFailure(m, i)}, [st EXCEPT !.err = message], ViewOrder[i])

\* page.tsx 110: setAnalysis(analysisResults) once the loop is over
PublishResults(st, m, n) ==
  [st EXCEPT !.an = st.res,
             !.com = {v \in ViewTypes : ~st.res[v].isNull},
             !.src = [v \in ViewTypes |->
                        IF st.res[v].isNull THEN NoSource
                        ELSE [inv |-> n, file |-> m[v].file]]]

\* part_000 128-175: the loop from position i until it suspends or ends
Run(m, i, st, n) ==
  IF SendFrom(m, i) = {}
    THEN Finish(IF snapshot = "page" THEN PublishResults(st, m, n) ELSE st, NoView)
  ELSE IF Throws(snapshot, m[ViewOrder[Min(SendFrom(m, i))]])
    THEN Failure(m, Min(SendFrom(m, i)), st,
                 "Video frames exceed size limit. Please use a shorter video or lower quality.")
  ELSE Suspend(m, SendFrom(m, i), st, NoView)

\* A button that is disabled only while there is no media
AnalyseDisabled_WhenEmpty == \A v \in ViewTypes : media[v].file = NoFile

\* animatedheader.tsx 401: disabled={!media.treadView.file &&
\* !media.sidewallView.file || isAnalyzing}
AnalyseDisabled == (\A v \in ViewTypes : media[v].file = NoFile) \/ isAnalyzing

\* animatedheader.tsx 400-401 and part_000 116-128: the Analyse button is
\* enabled and clicked; handleAnalyze runs up to its first await
handleAnalyze ==
  /\ ~AnalyseDisabled
  /\ inv < MaxInvocations
  /\ inv' = inv + 1
  /\ okViews' = {}
  /\ cleared' = {}
  /\ captured' = media
  /\ Run(media, 1,
         Locals(analysis, resultOf, {}, EmptyAnalysis, JNull, outstanding, {}), inv + 1)
  /\ UNCHANGED <<media, uploads, servedView>>

\* response.ok
Ok(resp) == resp.status >= 200 /\ resp.status <= 299

\* part_000 165-168, page.tsx 101-103, animatedheader.tsx 630-632 and 640-642
ResponseError(snap, resp) ==
  IF ~Ok(resp)
    THEN (IF snap = "utils" THEN "API request failed"
          ELSE IF snap = "page" THEN "Error analyzing" ELSE "HTTP error!")
  ELSE IF snap = "header" /\ resp.error # "" THEN resp.error
  ELSE ""

\* A commit that drops the result
Commit_Drop(snap, st, v, body, n, f) == st

\* part_000 170-174, animatedheader.tsx 644-650: setAnalysis(prev => ...);
\* page.tsx 105-106: analysisResults[key] = data
Commit(snap, st, v, body, n, f) ==
  IF snap = "page"
    THEN [st EXCEPT !.res = [@ EXCEPT ![v] = Entry(body)]]
    ELSE [st EXCEPT !.an = [@ EXCEPT ![v] = Entry(body)],
                    !.src = [@ EXCEPT ![v] = [inv |-> n, file |-> f]],
                    !.com = @ \cup {v}]

\* The request of a view reaches the route
ServeRequest(r) ==
  /\ r \in outstanding
  /\ servedView = NoView
  /\ POSTReceive(r.fd)
  /\ servedView' = r.view
  /\ UNCHANGED <<snapshot, pageVars, captured, curIdx, analysisResults, outstanding,
                 historyVars>>

\* part_000 160-175: the awaited fetch resolves with the route's Response and
\* the loop goes on up to its next await
FetchResolves ==
  /\ postPc = "responded"
  /\ servedView # NoView
  /\ POSTReturn
  /\ servedView' = NoView
  /\ LET v == servedView
         out == {r \in outstanding : r.view # v}
         st == Locals(analysis, resultOf, committedViews, analysisResults, error, out,
                      sentViews)
     IN IF ResponseError(snapshot, postResp) # ""
          THEN /\ Failure(captured, IndexOf(v), st, ResponseError(snapshot, postResp))
               /\ UNCHANGED okViews
          ELSE /\ Run(captured, curIdx + 1,
                      Commit(snapshot, st, v, postResp.analysis, inv, captured[v].file), inv)
               /\ okViews' = okViews \cup {v}
  /\ UNCHANGED <<snapshot, media, uploads, captured, inv, cleared>>

\* The awaited fetch rejects: the request never reached the route
FetchRejects(r) ==
  /\ r \in outstanding
  /\ servedView # r.view
  /\ Failure(captured, IndexOf(r.view),
             Locals(analysis, resultOf, committedViews, analysisResults, error,
                    outstanding \ {r}, sentViews),
             "Failed to fetch")
  /\ UNCHANGED <<snapshot, routeVars, media, uploads, captured, servedView, inv,
                 okViews, cleared>>

----------------------------------------------------------------------------
(* The frame sampler extractVideoFrames (lib/video-utils)                  *)

\* video.duration is a real number of seconds; here it is a whole number of
\* 1/DurationScale seconds, and a timestamp is a fraction <<num, den>>
DurationScale == 2
MaxDuration == 13
Durations == 0..MaxDuration

MAX_FRAMES == 5

\* Math.floor(video.duration)
Floor(d) == d \div DurationScale

\* A sample count that rounds the duration up
SampleCount_RoundUp(d) == Min({MAX_FRAMES, Floor(d) + 1})

\* part_000 39: Math.min(MAX_FRAMES, Math.floor(video.duration))
SampleCount(d) == Min({MAX_FRAMES, Floor(d)})

\* Evenly spaced timestamps that end at the duration
Timestamp_FromEnd(d, i) == <<d * (i + 1), DurationScale * Floor(d)>>

\* part_000 40: (video.duration * (i + 1)) / (Math.floor(video.duration) + 1)
Timestamp(d, i) == <<d * (i + 1), DurationScale * (Floor(d) + 1)>>

\* part_000 38-40: Array.from({ length }, (_, i) => ...)
Candidates(d) == [k \in 1..SampleCount(d) |-> Timestamp(d, k - 1)]

Perms(n) == {p \in [1..n -> 1..n] : \A i, j \in 1..n : i # j => p[i] # p[j]}

\* part_000 41: .sort(() => Math.random() - 0.5) leaves the elements in an
\* order the random comparator decides
Shuffles(seq) == {[k \in 1..Len(seq) |-> seq[p[k]]] : p \in Perms(Len(seq))}

\* part_000 41: .slice(0, MAX_FRAMES)
Slice(seq) == SubSeq(seq, 1, Min({MAX_FRAMES, Len(seq)}))

Pending == [state |-> "pending", value |-> << >>]

\* resolve / reject settle the promise once; later calls have no effect
Settle(p, state, value) ==
  IF p.state = "pending" THEN [state |-> state, value |-> value] ELSE p

SamplerIdle ==
  /\ samplerPc = "idle"
  /\ duration = 0
  /\ ctx = "2d"
  /\ timestamps = << >>
  /\ currentFrame = 0
  /\ frames = << >>
  /\ currentTime = <<0, 1>>
  /\ videoUrl = "none"
  /\ promise = Pending
  /\ captureErrors = 0

\* part_000 3-19: the state after extractVideoFrames(file) returned its promise
extractVideoFrames ==
  /\ samplerPc = "loading"
  /\ duration \in Durations
  /\ ctx \in {"2d", JNull}
  /\ timestamps = << >>
  /\ currentFrame = 0
  /\ frames = << >>
  /\ currentTime = <<0, 1>>
  /\ videoUrl = "created"
  /\ promise = Pending
  /\ captureErrors = 0

\* part_000 45-56: processNextFrame with currentFrame = cf and frames = fr
processNextFrame(cf, ts, fr) ==
  IF cf >= Len(ts)
    THEN /\ videoUrl' = "revoked"
         /\ promise' = Settle(promise, "resolved", fr)
         /\ samplerPc' = "done"
         /\ UNCHANGED currentTime
    ELSE /\ currentTime' = ts[cf + 1]
         /\ samplerPc' = "seeking"
         /\ UNCHANGED <<videoUrl, promise>>

\* part_000 21-85: video.onloadeddata
onloadeddata ==
  /\ samplerPc = "loading"
  /\ IF ctx = JNull
       THEN /\ videoUrl' = "revoked"
            /\ promise' = Settle(promise, "rejected", "Canvas context not available")
            /\ samplerPc' = "done"
            /\ UNCHANGED <<timestamps, currentTime>>
       ELSE \E ts \in Shuffles(Candidates(duration)) :
              /\ timestamps' = Slice(ts)
              /\ processNextFrame(0, Slice(ts), frames)
  /\ UNCHANGED <<duration, ctx, currentFrame, frames, captureErrors>>

\* part_000 58-82: video.onseeked; drawImage or toDataURL may throw, and the
\* catch moves on to the next timestamp.  A frame is represented by the
\* timestamp it was drawn at.
onseeked(drawn) ==
  /\ samplerPc = "seeking"
  /\ frames' = IF drawn THEN Append(frames, currentTime) ELSE frames
  /\ captureErrors' = IF drawn THEN captureErrors ELSE captureErrors + 1
  /\ currentFrame' = currentFrame + 1
  /\ processNextFrame(currentFrame + 1, timestamps, frames')
  /\ UNCHANGED <<duration, ctx, timestamps>>

\* An error handler that rejects without revoking the object URL
onerror_NoRevoke ==
  /\ samplerPc \in {"loading", "seeking"}
  /\ promise' = Settle(promise, "rejected", "Error loading video")
  /\ samplerPc' = "failed"
  /\ UNCHANGED <<duration, ctx, timestamps, currentFrame, frames, currentTime, videoUrl,
                 captureErrors>>

\* part_000 87-92: video.onerror
onerror ==
  /\ samplerPc \in {"loading", "seeking"}
  /\ videoUrl' = "revoked"
  /\ promise' = Settle(promise, "rejected", "Error loading video")
  /\ samplerPc' = "failed"
  /\ UNCHANGED <<duration, ctx, timestamps, currentFrame, frames, currentTime, captureErrors>>

----------------------------------------------------------------------------
(* The quality gate checkFrameQuality (lib/video-utils)                    *)

QUALITY_THRESHOLD == 500000
MIN_DATA_URI_LENGTH == 50

\* The lengths the gate is applied to: those within ProbeWidth of a threshold
ProbeWidth == 30
FrameLengths ==
  ((MIN_DATA_URI_LENGTH - ProbeWidth)..(MIN_DATA_URI_LENGTH + ProbeWidth))
    \cup ((QUALITY_THRESHOLD - ProbeWidth)..(QUALITY_THRESHOLD + ProbeWidth))

\* A gate with the data-URI check only
checkFrameQuality_UriOnly(length) == ~(length < MIN_DATA_URI_LENGTH)

\* part_000 96-114: frameData is represented by frameData.length
checkFrameQuality(length) ==
  IF length < MIN_DATA_URI_LENGTH THEN FALSE
  ELSE IF length < QUALITY_THRESHOLD THEN FALSE
  ELSE TRUE

QualityIdle == frameData = 0 /\ qualityResult = "none"

----------------------------------------------------------------------------
(* The page and the route together                                         *)

\* The replies of the backend the pipeline is run against
PipelineContents == {NotJson, [kind |-> "json", value |-> GoodAnalysis]}

Upload ==
  \E v \in ViewTypes, f \in PageFiles :
    (UploadUtils(v, f) \/ UploadReader(v, f)) /\ UNCHANGED <<snapshot, routeVars>>
UploadDone ==
  \E u \in uploads :
    \/ (\E fs \in ExtractOutcomes : FramesExtracted(u, fs))
         /\ UNCHANGED <<snapshot, routeVars>>
    \/ ExtractionFails(u) /\ UNCHANGED <<snapshot, routeVars>>
    \/ ReaderLoaded(u) /\ UNCHANGED <<snapshot, routeVars>>
Analyse == handleAnalyze /\ UNCHANGED <<snapshot, routeVars>>
Serve == \E r \in outstanding : ServeRequest(r)
PipelineReply ==
  /\ postPc = "awaiting"
  /\ \E content \in PipelineContents : CompletionResolves(content)
  /\ UNCHANGED <<snapshot, clientVars, libVars>>
NetworkError == \E r \in outstanding : FetchRejects(r)

Init == snapshot \in Snapshots /\ RouteInit /\ PageInit /\ SamplerIdle /\ QualityIdle /\ lastFile = [v \in ViewTypes |-> NoFile]
Next ==
  \/ Upload /\ UNCHANGED libVars
  \/ UploadDone /\ UNCHANGED libVars
  \/ Analyse /\ UNCHANGED libVars
  \/ Serve /\ UNCHANGED libVars
  \/ PipelineReply
  \/ CompletionRejects /\ UNCHANGED <<snapshot, clientVars, libVars>>
  \/ TimeoutFires /\ UNCHANGED <<snapshot, clientVars, libVars>>
  \/ AbortRejects /\ UNCHANGED <<snapshot, clientVars, libVars>>
  \/ FetchResolves /\ UNCHANGED libVars
  \/ NetworkError /\ UNCHANGED libVars
Spec == Init /\ [][Next]_vars


\* Every request sent is eventually handled by the route, the backend call of
\* the route eventually resolves or rejects, and the response is eventually
\* delivered to the awaiting fetch
RouteAnswers ==
  \/ PipelineReply
  \/ CompletionRejects /\ UNCHANGED <<snapshot, clientVars, libVars>>
  \/ AbortRejects /\ UNCHANGED <<snapshot, clientVars, libVars>>
Responsive ==
  /\ WF_vars(Serve /\ UNCHANGED libVars)
  /\ WF_vars(RouteAnswers)
  /\ WF_vars(FetchResolves /\ UNCHANGED libVars)
\* the page that imports handleAnalyze from lib/video-utils, with responses
InitUtils == snapshot = "utils" /\ RouteInit /\ PageInit /\ SamplerIdle /\ QualityIdle /\ lastFile = [v \in ViewTypes |-> NoFile]
SpecResponsive == InitUtils /\ [][Next]_vars /\ Responsive

----------------------------------------------------------------------------
(* The upload handlers on their own, with the order of selection recorded  *)

\* A file is selected for view v
Select ==
  \E v \in ViewTypes, f \in PageFiles :
    /\ UploadUtils(v, f) \/ UploadReader(v, f)
    /\ lastFile' = [lastFile EXCEPT ![v] = f]
    /\ UNCHANGED <<snapshot, routeVars, samplerVars, qualityVars>>
HandlerDone ==
  \E u \in uploads :
    /\ \/ (\E fs \in ExtractOutcomes : FramesExtracted(u, fs))
       \/ ExtractionFails(u)
       \/ ReaderLoaded(u)
    /\ UNCHANGED lastFile
    /\ UNCHANGED <<snapshot, routeVars, samplerVars, qualityVars>>

NextUploads ==
  \/ Select
  \/ HandlerDone
SpecUploads == Init /\ [][NextUploads]_vars

----------------------------------------------------------------------------
(* The frame sampler on its own, for every duration and canvas             *)

Loaded == onloadeddata /\ UNCHANGED <<snapshot, routeVars, clientVars, qualityVars, lastFile>>
Seeked == \E drawn \in BOOLEAN : onseeked(drawn) /\ UNCHANGED <<snapshot, routeVars, clientVars, qualityVars, lastFile>>
LoadError == onerror /\ UNCHANGED <<snapshot, routeVars, clientVars, qualityVars, lastFile>>

InitFrames == snapshot = "utils" /\ RouteInit /\ PageInit /\ extractVideoFrames /\ QualityIdle /\ lastFile = [v \in ViewTypes |-> NoFile]
NextFrames ==
  \/ Loaded
  \/ Seeked
  \/ LoadError
SpecFrames == InitFrames /\ [][NextFrames]_vars

----------------------------------------------------------------------------
(* The quality gate on its own, for frames around its two thresholds       *)

CheckFrame ==
  /\ qualityResult = "none"
  /\ qualityResult' = IF checkFrameQuality(frameData) THEN "true" ELSE "false"
  /\ UNCHANGED <<snapshot, routeVars, clientVars, samplerVars, frameData, lastFile>>

InitQuality ==
  /\ snapshot = "utils" /\ RouteInit /\ PageInit /\ SamplerIdle
  /\ frameData \in FrameLengths
  /\ qualityResult = "none"
  /\ lastFile = [v \in ViewTypes |-> NoFile]
NextQuality == CheckFrame
SpecQuality == InitQuality /\ [][NextQuality]_vars

----------------------------------------------------------------------------
(* The route on its own, with requests from an arbitrary client            *)

FileForms ==
  {[EmptyForm EXCEPT !.file = f, !.viewType = v, !.mediaType = m] :
     f \in File \cup {NoFile}, v \in ViewTypes, m \in {"image", "video", Undefined}}
ImageForms ==
  {[EmptyForm EXCEPT !.image = f, !.viewType = v] : f \in File \cup {NoFile}, v \in ViewTypes}
ClientForms == FileForms \cup ImageForms

Request == postPc = "idle" /\ \E fd \in ClientForms : POSTReceive(fd)
Reply == postPc = "awaiting" /\ \E content \in Contents : CompletionResolves(content)

InitPost == snapshot \in {"page", "utils"} /\ RouteInit /\ PageInit /\ SamplerIdle /\ QualityIdle /\ lastFile = [v \in ViewTypes |-> NoFile]
NextPost ==
  \/ Request /\ UNCHANGED <<snapshot, clientVars, libVars>>
  \/ Reply /\ UNCHANGED <<snapshot, clientVars, libVars>>
  \/ CompletionRejects /\ UNCHANGED <<snapshot, clientVars, libVars>>
  \/ TimeoutFires /\ UNCHANGED <<snapshot, clientVars, libVars>>
  \/ AbortRejects /\ UNCHANGED <<snapshot, clientVars, libVars>>
  \/ POSTReturn /\ UNCHANGED <<snapshot, clientVars, libVars>>
SpecPost == InitPost /\ [][NextPost]_vars

----------------------------------------------------------------------------
(* Properties of the route                                                 *)

\* A measurement or fullSize value is concrete when it is neither the
\* sentinel nor absent/empty
Concrete(x) == x \notin {NotAvailable, Undefined, JNull, ""}

\* The POST that enforces consistency answered a parsed reply with success
Enforced ==
  /\ snapshot # "page"
  /\ postPc = "responded"
  /\ completion = "resolved"
  /\ postResp.status = 200

replyTyreSize == contentString.value.tyreSize
returnedTyreSize == postResp.analysis.tyreSize

\* The parsed reply carries a tyreSize object with an unavailable measurement
PartialReply ==
  /\ snapshot # "page"
  /\ postPc = "responded"
  /\ completion = "resolved"
  /\ contentString.kind = "json"
  /\ replyTyreSize.kind = "object"
  /\ \/ ~Concrete(replyTyreSize.width)
     \/ ~Concrete(replyTyreSize.aspectRatio)
     \/ ~Concrete(replyTyreSize.wheelDiameter)

\* C1: a parsed reply whose tyreSize has an unavailable or absent
\* measurement is answered with a tyreSize whose width, aspectRatio,
\* wheelDiameter and fullSize are all "not available" and whose
\* isImageClear is false, whatever fullSize and isImageClear it carried.
C1_AllOrNothing ==
  PartialReply =>
    /\ postResp.status = 200
    /\ returnedTyreSize.width = NotAvailable
    /\ returnedTyreSize.aspectRatio = NotAvailable
    /\ returnedTyreSize.wheelDiameter = NotAvailable
    /\ returnedTyreSize.fullSize = NotAvailable
    /\ returnedTyreSize.isImageClear = "false"

\* Two concrete measurements, wheelDiameter "not available", isImageClear true
C1_Witness ==
  /\ PartialReply
  /\ Concrete(replyTyreSize.width)
  /\ Concrete(replyTyreSize.aspectRatio)
  /\ replyTyreSize.wheelDiameter = NotAvailable
  /\ Concrete(replyTyreSize.fullSize)
  /\ replyTyreSize.isImageClear = "true"
  /\ returnedTyreSize.isImageClear = "false"

AllThreeConcrete(t) ==
  Concrete(t.width) /\ Concrete(t.aspectRatio) /\ Concrete(t.wheelDiameter)

\* C2 as stated: on every success response fullSize is concrete if and only
\* if width, aspectRatio and wheelDiameter are all concrete.
C2_FullSizeIff ==
  Enforced => (Concrete(returnedTyreSize.fullSize) <=> AllThreeConcrete(returnedTyreSize))

\* C2 amended: on every success response a concrete fullSize implies three
\* concrete measurements, and a reply with three concrete measurements keeps
\* the fullSize it carried (concrete or not).
C2_FullSizeOnlyIf ==
  Enforced =>
    /\ Concrete(returnedTyreSize.fullSize) => AllThreeConcrete(returnedTyreSize)
    /\ AllThreeConcrete(replyTyreSize) => returnedTyreSize.fullSize = replyTyreSize.fullSize

\* A concrete fullSize is returned, and one is withheld
C2_Witness ==
  /\ Enforced
  /\ Concrete(returnedTyreSize.fullSize)
  /\ AllThreeConcrete(returnedTyreSize)

\* C3: applying the enforcement step to the tyreSize the POST returned
\* yields that tyreSize again.
C3_Idempotent ==
  Enforced => ForceConsistency(returnedTyreSize) = returnedTyreSize

\* The enforcement rewrote the reply (one measurement missing, two concrete)
C3_Witness ==
  /\ Enforced
  /\ PartialReply
  /\ Concrete(replyTyreSize.width)
  /\ Concrete(replyTyreSize.aspectRatio)
  /\ returnedTyreSize # replyTyreSize

\* The request carries a still image of more than 4 MiB
OversizeImage(fd) ==
  \E f \in {fd.file, fd.image} : f.kind = "image" /\ f.size > 4 * MiB

\* C8: a request whose media is a still image larger than 4 MiB is answered
\* with a 400 input error and no backend call is made for it.
C8_OversizeImage ==
  (postPc # "idle" /\ OversizeImage(formData)) =>
    /\ postPc = "responded"
    /\ postResp.status = 400
    /\ backendCalls = 0
    /\ completion = "none"

\* A 5 MiB image declared as image was rejected by the size check
C8_Witness ==
  /\ postPc = "responded"
  /\ formData.file.kind = "image"
  /\ formData.file.size = 5 * MiB
  /\ formData.mediaType = "image"
  /\ postResp.status = 400
  /\ backendCalls = 0

\* C10: when the deadline expires while the backend call is in flight, the
\* call is cancelled, the only thing the POST then does is answer 408, and
\* the answer to such a request is never a success.
C10_Deadline ==
  /\ [](completion = "cancelled" =>
          /\ aborted
          /\ postPc \in {"awaiting", "responded"}
          /\ postPc = "responded" => postResp.status = 408)
  /\ [][/\ (timeoutId = "pending" /\ completion = "inflight" /\ timeoutId' = "fired")
             => completion' = "cancelled"
        /\ (completion = "cancelled" /\ postPc = "awaiting")
             => (postPc' = "responded" /\ postResp'.status = 408)]_vars

Answered == snapshot # "page" /\ postPc = "responded" /\ completion = "resolved"

\* C15: a reply text that holds one well-formed JSON object with prose before
\* and after it is answered as that object is, and not as a parse failure.
C15_WrappedJson ==
  (Answered /\ contentString.kind = "wrapped") =>
    /\ postResp.error # "Failed to parse analysis results"
    /\ postResp = Response(200, "", [contentString.value EXCEPT !.tyreSize = ForceConsistency(@)])

\* the fields the schema of a view requires are in the reply
HasRequired(view, a) ==
  IF view = "treadView"
    THEN a.safety = "object" /\ a.explanations = "object"
    ELSE a.tyreSize.kind = "object"

\* C16: a reply that parses as JSON and lacks a required field of the
\* requested view's schema is never returned as a success.
C16_SchemaRejection ==
  (Answered /\ contentString.kind = "json"
            /\ ~HasRequired(formData.viewType, contentString.value)) =>
    postResp.status # 200

\* C17: a treadView reply with safety and explanations and no tyreSize object
\* is answered with a success that carries that safety and explanations.
C17_TreadWithoutTyreSize ==
  (Answered /\ contentString.kind = "json" /\ formData.viewType = "treadView"
            /\ contentString.value.safety = "object"
            /\ contentString.value.explanations = "object"
            /\ contentString.value.tyreSize.kind # "object") =>
    /\ postResp.status = 200
    /\ postResp.analysis.safety = "object"
    /\ postResp.analysis.explanations = "object"

\* the request names no file, or its file is not of the declared media kind
IllFormed(fd) ==
  \/ fd.file = NoFile
  \/ fd.mediaType = "video" /\ ~IsVideoFile(fd.file)
  \/ fd.mediaType # "video" /\ IsVideoFile(fd.file)
  \/ fd.mediaType = Undefined

\* C19: an ill-formed request is answered 400 and no backend call is issued
\* for it.
C19_IllFormed ==
  (snapshot # "page" /\ postPc # "idle" /\ IllFormed(formData)) =>
    /\ postPc = "responded"
    /\ postResp.status = 400
    /\ backendCalls = 0

\* C28: once the POST has produced its response the deadline timer is not
\* pending, and the abort is not fired after the response.
C28_TimerHygiene ==
  /\ [](postPc = "responded" => timeoutId # "pending")
  /\ [][postPc = "responded" => (timeoutId' = "fired" => timeoutId = "fired")]_vars

----------------------------------------------------------------------------
(* Properties of the pipeline controller                                   *)

\* The last invocation of handleAnalyze has ended
Ended == inv > 0 /\ ~isAnalyzing

\* The views that had media when the invocation began
Requested == {v \in ViewTypes : captured[v].file # NoFile}

Earlier(v) == {w \in Requested : IndexOf(w) < IndexOf(v)}
Later(v) == {w \in ViewTypes : IndexOf(w) > IndexOf(v)}

\* C4: when an invocation in which a view's request succeeded and a later
\* view's request failed has ended, AnalysisState holds the result of the
\* view that succeeded, committed by this invocation, and the error is set
\* (no upload having cleared the entry or the error in between).
C4_PartialSuccess ==
  (Ended /\ failedView # NoView /\ okViews # {} /\ cleared = {}) =>
    /\ \A v \in okViews : ~analysis[v].isNull /\ resultOf[v].inv = inv
    /\ error # JNull

\* C5: once a step has failed for a view, no request has been sent for a
\* later view and no later view's entry has been written by the invocation.
C5_AbortOnFailure ==
  failedView # NoView =>
    \A v \in Later(failedView) :
      /\ v \notin sentViews
      /\ v \notin committedViews
      /\ \A r \in outstanding : r.view # v

\* Both views had media, the first failed, the second was never sent
C5_Witness ==
  /\ Ended
  /\ Requested = ViewTypes
  /\ failedView = "treadView"
  /\ sentViews = {"treadView"}
  /\ error # JNull

\* C6: when handleAnalyze begins every entry of AnalysisState is null, and
\* after the invocation has ended every non-null entry was committed by it.
C6_EmptyAtStart ==
  /\ [][inv' = inv + 1 => \A v \in ViewTypes : analysis[v].isNull]_vars
  /\ [](Ended => \A v \in ViewTypes : ~analysis[v].isNull => resultOf[v].inv = inv)

\* C7: at most one request is outstanding, and the request of a view is
\* outstanding only when every earlier view with media has been answered
\* and its result committed.
C7_OneOutstanding ==
  /\ Cardinality(outstanding) <= 1
  /\ \A r \in outstanding : \A w \in Earlier(r.view) :
       /\ w \in okViews
       /\ IF snapshot = "page" THEN ~analysisResults[w].isNull
                               ELSE w \in committedViews

\* The second view's request is outstanding after the first was committed
C7_Witness ==
  /\ Requested = ViewTypes
  /\ \E r \in outstanding : r.view = "sidewallView"
  /\ "treadView" \in committedViews
  /\ snapshot = "utils"

\* The decoded byte size of a frame set: three bytes for four characters
RECURSIVE DecodedBytes(_)
DecodedBytes(fs) ==
  IF fs = << >> THEN 0
  ELSE ((Head(fs) - 23) \div 4) * 3 + DecodedBytes(Tail(fs))

\* The views whose captured media is a video with frames above 9 MiB
Oversized ==
  {v \in Requested : /\ captured[v].type = "video"
                     /\ Len(captured[v].frames) > 0
                     /\ DecodedBytes(captured[v].frames) > 9 * MiB}

\* C9: for a video view whose frame set decodes to more than 9 MiB, the
\* handleAnalyze of lib/video-utils sends no request and uploads no frame,
\* and the invocation fails at that view with the size error once the
\* earlier views have succeeded.
C9_OversizeFrames ==
  snapshot = "utils" =>
    \A v \in Oversized :
      /\ v \notin sentViews
      /\ \A r \in outstanding : r.view # v
      /\ servedView # v
      /\ (Ended /\ Earlier(v) \subseteq okViews) =>
           /\ failedView = v
           /\ error \in {"Video frames exceed size limit. Please use a shorter video or lower quality.",
                         "Error processing media file"}

\* The second view's frame set is oversize; the first view was committed
C9_Witness ==
  /\ snapshot = "utils"
  /\ Ended
  /\ "sidewallView" \in Oversized
  /\ okViews = {"treadView"}
  /\ failedView = "sidewallView"
  /\ sentViews = {"treadView"}
  /\ error = "Video frames exceed size limit. Please use a shorter video or lower quality."

\* C18: a request handleAnalyze sends for a video view with frames passes the
\* missing-file check of the route, is declared as video, and its frames
\* reach exactly one backend call.
C18_VideoProtocol ==
  (postPc # "idle" /\ formData.isVideo = "true" /\ formData.frames # << >>) =>
    /\ postResp.error # "No file provided"
    /\ formData.mediaType = "video"
    /\ backendCalls = 1

\* C is a prefix, in processing order, of the views R
IsPrefix(C, R) ==
  /\ C \subseteq R
  /\ \A v \in C : \A w \in R : IndexOf(w) < IndexOf(v) => w \in C

\* C20: provided every request is eventually answered or fails, every
\* invocation of handleAnalyze ends, and at the step that ends it isAnalyzing
\* is false and either error is null and every view that had media was
\* committed by the invocation, or error is non-null and the views committed
\* by the invocation are a prefix of the views that had media.
C20_Terminal ==
  /\ isAnalyzing ~> ~isAnalyzing
  /\ [][((isAnalyzing \/ inv' # inv) /\ ~isAnalyzing') =>
         LET had == {v \in ViewTypes : captured'[v].file # NoFile}
         IN \/ error' = JNull /\ committedViews' = had
            \/ error' # JNull /\ IsPrefix(committedViews', had)]_vars

\* an invocation for two views has ended with the first committed and an error
C20_Witness ==
  /\ Ended
  /\ Requested = ViewTypes
  /\ committedViews = {"treadView"}
  /\ failedView = "sidewallView"
  /\ error # JNull

\* C26: a non-null AnalysisState entry of a view was computed from the file
\* the view's media state holds.
C26_NoStaleResult ==
  \A v \in ViewTypes : ~analysis[v].isNull => resultOf[v].file = media[v].file

\* C27: a new invocation of handleAnalyze begins only when none is in
\* progress, requests are outstanding only during an invocation, and never
\* two at a time.
C27_SingleInvocation ==
  /\ [](outstanding # {} => isAnalyzing)
  /\ [](Cardinality(outstanding) <= 1)
  /\ [][inv' # inv => (~isAnalyzing /\ outstanding = {})]_vars

\* the second invocation is in progress, the first having ended
C27_Witness ==
  /\ inv = 2
  /\ isAnalyzing
  /\ outstanding # {}

\* C30: an invocation sends no request for a view without a file and leaves
\* the view's AnalysisState entry as it is; an invocation that ends without
\* a failure has sent one request for each view with a file, and none twice.
C30_ViewsWithoutMedia ==
  /\ [](inv > 0 => \A v \in ViewTypes \ Requested :
                      v \notin sentViews /\ v \notin committedViews)
  /\ []((Ended /\ failedView = NoView) => sentViews = Requested)
  /\ [][(inv' # inv \/ outstanding' # outstanding \/ isAnalyzing' # isAnalyzing) =>
         /\ \A v \in ViewTypes :
              captured'[v].file = NoFile => analysis'[v] = analysis[v]
         /\ \A r \in outstanding' \ outstanding :
              /\ captured'[r.view].file # NoFile
              /\ inv' = inv => r.view \notin sentViews]_vars

\* an invocation for the sidewall alone has ended without a failure, the
\* tread entry being left empty
C30_Witness ==
  /\ Ended
  /\ failedView = NoView
  /\ Requested = {"sidewallView"}
  /\ sentViews = {"sidewallView"}
  /\ analysis["treadView"].isNull
  /\ ~analysis["sidewallView"].isNull

----------------------------------------------------------------------------
(* Properties of the page                                                  *)

\* C25: once every upload handler has finished (none of them having failed),
\* the media state of each view holds the file selected last for it.
C25_LastUploadWins ==
  (uploads = {} /\ error # "Error processing media file") =>
    \A v \in ViewTypes : media[v].file = lastFile[v]

----------------------------------------------------------------------------
(* Properties of the frame sampler                                         *)

\* a < b for fractions <<num, den>> with positive denominators
Less(a, b) == a[1] * b[2] < b[1] * a[2]

\* video.duration as a fraction of seconds
DurationSeconds == <<duration, DurationScale>>

\* C12 as stated: whenever extractVideoFrames resolves, the array has exactly
\* min(MAX_FRAMES, floor(D)) frames, capture exceptions included.
C12_ExactCount ==
  promise.state = "resolved" =>
    Len(promise.value) = Min({5, duration \div DurationScale})

\* C12 amended: whenever extractVideoFrames resolves, the array has
\* min(MAX_FRAMES, floor(D)) frames less one for every seek whose drawing or
\* encoding threw; it has exactly that many when none threw.
C12_FrameCount ==
  promise.state = "resolved" =>
    Len(promise.value) = Min({5, duration \div DurationScale}) - captureErrors

\* a long video resolved with fewer frames because two captures threw
C12_Witness ==
  /\ promise.state = "resolved"
  /\ duration \div DurationScale > 5
  /\ captureErrors = 2
  /\ Len(promise.value) = 3

\* C13: for a duration of at least one second the timestamps sought are
\* pairwise distinct and lie in [0, D), and the frame set never has more than
\* MAX_FRAMES nor more than floor(D) entries.
C13_Timestamps ==
  duration \div DurationScale >= 1 =>
    /\ \A i, j \in 1..Len(timestamps) :
         i # j => (Less(timestamps[i], timestamps[j]) \/ Less(timestamps[j], timestamps[i]))
    /\ \A i \in 1..Len(timestamps) :
         /\ ~Less(timestamps[i], <<0, 1>>)
         /\ Less(timestamps[i], DurationSeconds)
    /\ samplerPc = "seeking" => \E i \in 1..Len(timestamps) : currentTime = timestamps[i]
    /\ Len(frames) <= 5
    /\ Len(frames) <= duration \div DurationScale

\* every timestamp of a video longer than MAX_FRAMES seconds was sought and drawn
C13_Witness ==
  /\ promise.state = "resolved"
  /\ duration \div DurationScale > 5
  /\ Len(timestamps) = 5
  /\ Len(frames) = 5

\* C14: for a video shorter than one second extractVideoFrames never
\* resolves; it fails with an empty-video error.
C14_EmptyVideo ==
  duration \div DurationScale = 0 =>
    /\ promise.state # "resolved"
    /\ samplerPc = "done" => promise.state = "rejected"

\* C21: the frames extractVideoFrames resolves with are in ascending order of
\* the timestamps they were drawn at, whatever the shuffle did.
C21_FrameOrder ==
  promise.state = "resolved" =>
    \A i, j \in 1..Len(promise.value) :
      i < j => Less(promise.value[i], promise.value[j])

\* the timestamp sequences onloadeddata can leave in timestamps
SampledOutcomes(d) == {Slice(ts) : ts \in Shuffles(Candidates(d))}

\* C22: for a video longer than MAX_FRAMES seconds every one of the
\* floor(duration) evenly spaced candidates is sampled in some execution.
C22_AllCandidates ==
  (samplerPc = "seeking" /\ duration \div DurationScale > 5) =>
    \A i \in 0..(duration \div DurationScale - 1) :
      \E ts \in SampledOutcomes(duration) :
        \E k \in 1..Len(ts) : ts[k] = <<duration * (i + 1),
                                        DurationScale * (duration \div DurationScale + 1)>>

\* C23: whenever the promise of extractVideoFrames has settled, the object
\* URL created for the video has been revoked.
C23_ScopedRelease == promise.state # "pending" => videoUrl = "revoked"

\* the video failed while seeking, after a frame had been captured
C23_Witness ==
  /\ promise.state = "rejected"
  /\ samplerPc = "failed"
  /\ Len(frames) > 0
  /\ videoUrl = "revoked"

----------------------------------------------------------------------------
(* Properties of the quality gate                                          *)

\* C24: checkFrameQuality returns false for a frame shorter than 50 or
\* shorter than 500000 and true for every other frame, and changes nothing
\* but its result.
C24_QualityGate ==
  /\ [](qualityResult # "none" =>
          qualityResult = IF frameData < 50 \/ frameData < 500000 THEN "false" ELSE "true")
  /\ [][qualityResult' # qualityResult =>
         UNCHANGED <<snapshot, routeVars, clientVars, samplerVars, frameData>>]_vars

\* a frame of exactly the minimum viable size was accepted
C24_Witness == frameData = 500000 /\ qualityResult = "true"

====
